---- MODULE Spec2Model ----
(***************************************************************************)
(* Model of restic's "restore" command, cmd/restic/cmd_restore.go.         *)
(*                                                                         *)
(* runRestore is one sequential control flow (variable pc) that validates  *)
(* its input, opens the repository, resolves the snapshot, installs the    *)
(* error/warning callbacks and the select filter on the restorer and then  *)
(* runs RestoreTo and, on request, VerifyFiles.  While one of the two      *)
(* engine calls is in progress the engine's workers call the res.Error and *)
(* res.Warn closures.  The closure `totalErrors++` is an unsynchronised    *)
(* read followed by a write of a captured int, so it is modelled as two    *)
(* steps per invocation.                                                   *)
(*                                                                         *)
(* The selectors selectExcludeFilter / selectIncludeFilter are pure        *)
(* functions of the outputs of the pattern functions on the item and of    *)
(* the node type; they are operators, applied by the SelSpec               *)
(* specification to inputs drawn from bounded sets.                        *)
(***************************************************************************)
EXTENDS Integers, Sequences, FiniteSets, TLC

\* ------------------------------------------------------------------ bounds
\* engine workers that may call res.Error / res.Warn concurrently
NWorkers == 2
\* res.Error invocations per run
MaxErrorCalls == 2
\* res.Warn invocations per run
MaxWarnCalls == 1
\* longest pattern-function list handed to a selector
MaxFns == 2
\* largest len(args)
MaxArgs == 2

Workers == 1..NWorkers

VARIABLES
    args,               \* len(args): number of snapshot IDs on the command line
    opts,               \* RestoreOptions: which option lists are non-empty, Target == "", Verify
    gopts,              \* GlobalOptions: NoLock
    pc,                 \* position of runRestore
    excludePatternFns,  \* len(excludePatternFns)
    includePatternFns,  \* len(includePatternFns)
    lockHeld,           \* the repository read lock is held by this process
    unlockDeferred,     \* `defer unlock()` has been registered
    SelectFilter,       \* res.SelectFilter: "nil", "exclude" or "include"
    totalErrors,        \* the captured counter
    wpc,                \* per worker: "idle", or "inc" inside res.Error between read and write
    wtmp,               \* per worker: the value of totalErrors read by totalErrors++
    errorCalls,         \* number of res.Error invocations begun in this run
    errorsAtRestore,    \* errorCalls when RestoreTo returned
    warnCalls,          \* number of res.Warn invocations in this run
    walkAborted,        \* a res.Error call returned a non-nil error to the engine
    cancelled,          \* ctx is cancelled
    cancelledAt,        \* the engine call in progress when ctx was cancelled ("elsewhere" outside one), "" before
    failedAt,           \* the step whose call returned an error, "" when none did
    phases,             \* the steps of runRestore entered so far, in order
    progressFinished,   \* progress.Finish() was called
    outcome,            \* "running", "ok", or the error runRestore returned
    reported,           \* the N of "There were N errors", 0 when not produced
    check1Count,        \* totalErrors as read at line 195, -1 before that
    selIn,              \* selector input: [mode, outs, nodeType]
    selOut              \* selector result: [called, selectedForRestore, childMayBeSelected, evaluated]

vars == <<args, opts, gopts, pc, excludePatternFns, includePatternFns, lockHeld,
          unlockDeferred, SelectFilter, totalErrors, wpc, wtmp, errorCalls,
          errorsAtRestore, warnCalls, walkAborted, cancelled, cancelledAt, failedAt,
          phases,
          progressFinished, outcome, reported, check1Count, selIn, selOut>>

orchVars == <<args, opts, gopts, pc, excludePatternFns, includePatternFns, lockHeld,
              unlockDeferred, SelectFilter, totalErrors, wpc, wtmp, errorCalls,
              errorsAtRestore, warnCalls, walkAborted, cancelled, cancelledAt, failedAt,
              phases,
              progressFinished, outcome, reported, check1Count>>

selVars == <<selIn, selOut>>

\* --------------------------------------------------------------- options
\* Which option lists are non-empty; ExcludeErr / IncludeErr: CollectPatterns
\* returns an error for the patterns given (an invalid pattern, an unreadable
\* pattern file).
OptsSet ==
    [ Excludes : BOOLEAN, InsensitiveExcludes : BOOLEAN, ExcludeFiles : BOOLEAN,
      Includes : BOOLEAN, InsensitiveIncludes : BOOLEAN, IncludeFiles : BOOLEAN,
      ExcludeErr : BOOLEAN, IncludeErr : BOOLEAN,
      TargetEmpty : BOOLEAN, Verify : BOOLEAN ]

GlobalOptsSet == [ NoLock : BOOLEAN ]

\* line 73
hasExcludes == opts.Excludes \/ opts.InsensitiveExcludes
\* line 74
hasIncludes == opts.Includes \/ opts.InsensitiveIncludes

\* The exclude options the user supplied, file variants included.
excludeOptionsGiven == opts.Excludes \/ opts.InsensitiveExcludes \/ opts.ExcludeFiles
includeOptionsGiven == opts.Includes \/ opts.InsensitiveIncludes \/ opts.IncludeFiles

\* excludePatternOptions.CollectPatterns: the lengths of the list it may
\* return, zero or more functions compiled from the patterns supplied; no
\* exclude option leaves nothing to compile.
CollectExcludeFns == IF excludeOptionsGiven THEN 0..MaxFns ELSE {0}

\* includePatternOptions.CollectPatterns, likewise.
CollectIncludeFns == IF includeOptionsGiven THEN 0..MaxFns ELSE {0}

\* ------------------------------------------------------- selector inputs
NoSelOut == [called |-> FALSE, selectedForRestore |-> FALSE,
             childMayBeSelected |-> FALSE, evaluated |-> 0]
NoSelIn == [mode |-> "nil", outs |-> <<>>, nodeType |-> "file"]

\* --------------------------------------------------------- initial state
OrchInit ==
    /\ args \in 0..MaxArgs
    /\ opts \in OptsSet
    /\ opts.ExcludeErr => excludeOptionsGiven
    /\ opts.IncludeErr => includeOptionsGiven
    /\ gopts \in GlobalOptsSet
    /\ pc = "CollectExcludes"
    /\ excludePatternFns = 0
    /\ includePatternFns = 0
    /\ lockHeld = FALSE
    /\ unlockDeferred = FALSE
    /\ SelectFilter = "nil"
    /\ totalErrors = 0
    /\ wpc = [w \in Workers |-> "idle"]
    /\ wtmp = [w \in Workers |-> 0]
    /\ errorCalls = 0
    /\ errorsAtRestore = 0
    /\ warnCalls = 0
    /\ walkAborted = FALSE
    /\ cancelled = FALSE
    /\ cancelledAt = ""
    /\ failedAt = ""
    /\ phases = <<>>
    /\ progressFinished = FALSE
    /\ outcome = "running"
    /\ reported = 0
    /\ check1Count = -1

Init ==
    /\ OrchInit
    /\ selIn = NoSelIn
    /\ selOut = NoSelOut

\* ------------------------------------------------------------ returning
\* Variant: unlock() is called on the success path only, not deferred.
LockAfterReturnNoDefer == lockHeld

\* The deferred unlock() of line 109 runs on every return after it was
\* registered.
LockAfterReturn == IF unlockDeferred THEN FALSE ELSE lockHeld

\* `return err` / `return nil`: set the result and run the deferred calls.
Return(err, n) ==
    /\ pc' = "done"
    /\ outcome' = err
    /\ reported' = n
    /\ lockHeld' = LockAfterReturn

Goto(next) ==
    /\ pc' = next
    /\ UNCHANGED <<outcome, reported, lockHeld>>

Enter(phase) == phases' = Append(phases, phase)

\* An external call that takes ctx succeeds or fails; nothing in runRestore
\* makes it fail once ctx is cancelled.
CallOutcomes == BOOLEAN
\* The errors such a call may return when it fails: its own, or the context
\* error after a cancellation.
CallErr(own) == IF cancelled THEN {"ErrCancelled", own} ELSE {own}

AllIdle == \A w \in Workers : wpc[w] = "idle"

\* ------------------------------------------------- runRestore, lines 73-99
\* lines 76-79: excludePatternFns, err := opts.excludePatternOptions.CollectPatterns()
CollectExcludes ==
    /\ pc = "CollectExcludes"
    /\ IF opts.ExcludeErr
       THEN /\ failedAt' = "CollectExcludes"
            /\ UNCHANGED excludePatternFns
            /\ Return("ErrExcludePatterns", 0)
       ELSE /\ \E n \in CollectExcludeFns : excludePatternFns' = n
            /\ UNCHANGED failedAt
            /\ Goto("CollectIncludes")
    /\ UNCHANGED <<args, opts, gopts, includePatternFns, unlockDeferred, SelectFilter,
                   totalErrors, wpc, wtmp, errorCalls, errorsAtRestore, warnCalls,
                   walkAborted, cancelled, cancelledAt, phases, progressFinished,
                   check1Count, selVars>>

\* lines 81-84: includePatternFns, err := opts.includePatternOptions.CollectPatterns()
CollectIncludes ==
    /\ pc = "CollectIncludes"
    /\ IF opts.IncludeErr
       THEN /\ failedAt' = "CollectIncludes"
            /\ UNCHANGED includePatternFns
            /\ Return("ErrIncludePatterns", 0)
       ELSE /\ \E n \in CollectIncludeFns : includePatternFns' = n
            /\ UNCHANGED failedAt
            /\ Goto("Validate")
    /\ UNCHANGED <<args, opts, gopts, excludePatternFns, unlockDeferred, SelectFilter,
                   totalErrors, wpc, wtmp, errorCalls, errorsAtRestore, warnCalls,
                   walkAborted, cancelled, cancelledAt, phases, progressFinished,
                   check1Count, selVars>>

\* Variant: the target check comes before the check of len(args).
ValidateErrTargetFirst ==
    IF opts.TargetEmpty THEN "ErrNoTarget"
    ELSE IF args = 0 THEN "ErrNoSnapshotID"
    ELSE IF args > 1 THEN "ErrMoreThanOneSnapshotID"
    ELSE IF hasExcludes /\ hasIncludes THEN "ErrExcludeInclude"
    ELSE "nil"

\* Variant: the exclude/include check comes first.
ValidateErrConflictFirst ==
    IF hasExcludes /\ hasIncludes THEN "ErrExcludeInclude"
    ELSE IF args = 0 THEN "ErrNoSnapshotID"
    ELSE IF args > 1 THEN "ErrMoreThanOneSnapshotID"
    ELSE IF opts.TargetEmpty THEN "ErrNoTarget"
    ELSE "nil"

\* lines 86-99: the error of the first failing check, "nil" when all pass
ValidateErr ==
    IF args = 0 THEN "ErrNoSnapshotID"
    ELSE IF args > 1 THEN "ErrMoreThanOneSnapshotID"
    ELSE IF opts.TargetEmpty THEN "ErrNoTarget"
    ELSE IF hasExcludes /\ hasIncludes THEN "ErrExcludeInclude"
    ELSE "nil"

Validate ==
    /\ pc = "Validate"
    /\ Enter("Validate")
    /\ IF ValidateErr # "nil"
       THEN Return(ValidateErr, 0)
       ELSE Goto("Open")
    /\ UNCHANGED <<args, opts, gopts, excludePatternFns, includePatternFns,
                   unlockDeferred, SelectFilter, totalErrors, wpc, wtmp, errorCalls,
                   errorsAtRestore, warnCalls, walkAborted, cancelled, cancelledAt,
                   failedAt, progressFinished, check1Count, selVars>>

\* ----------------------------------------------- runRestore, lines 105-129
\* openWithReadLock(ctx, gopts, noLock): whether the lock is held after a
\* successful call; with noLock the repository is opened without a lock.
openWithReadLock(noLock) == ~noLock

\* Variant: the error of a resolution call is dropped and the run goes on.
ResolutionErrIgnored(ok) == FALSE

\* lines 116, 122, 127: `if err != nil { return ... }` after FindLatest,
\* LoadIndex and FindTreeDirectory
ResolutionErrReturned(ok) == ~ok

\* lines 105-109
Open ==
    /\ pc = "Open"
    /\ Enter("Open")
    /\ \E ok \in CallOutcomes :
          IF ok
          THEN /\ lockHeld' = openWithReadLock(gopts.NoLock)
               /\ unlockDeferred' = TRUE
               /\ pc' = "FindLatest"
               /\ UNCHANGED <<outcome, reported, failedAt>>
          ELSE /\ failedAt' = "Open"
               /\ UNCHANGED unlockDeferred
               /\ \E e \in CallErr("ErrOpen") : Return(e, 0)
    /\ UNCHANGED <<args, opts, gopts, excludePatternFns, includePatternFns, SelectFilter,
                   totalErrors, wpc, wtmp, errorCalls, errorsAtRestore, warnCalls,
                   walkAborted, cancelled, cancelledAt, progressFinished, check1Count, selVars>>

\* lines 111-118: every FindLatest error is wrapped into "failed to find snapshot"
FindLatest ==
    /\ pc = "FindLatest"
    /\ Enter("ResolveSnapshot")
    /\ \E ok \in CallOutcomes :
          /\ failedAt' = (IF ok THEN failedAt ELSE "ResolveSnapshot")
          /\ IF ResolutionErrReturned(ok)
             THEN Return("ErrFindSnapshot", 0)
             ELSE Goto("LoadIndex")
    /\ UNCHANGED <<args, opts, gopts, excludePatternFns, includePatternFns,
                   unlockDeferred, SelectFilter, totalErrors, wpc, wtmp, errorCalls,
                   errorsAtRestore, warnCalls, walkAborted, cancelled, cancelledAt,
                   progressFinished, check1Count, selVars>>

\* lines 120-124
LoadIndex ==
    /\ pc = "LoadIndex"
    /\ Enter("LoadIndex")
    /\ \E ok \in CallOutcomes :
          /\ failedAt' = (IF ok THEN failedAt ELSE "LoadIndex")
          /\ IF ResolutionErrReturned(ok)
             THEN \E e \in CallErr("ErrLoadIndex") : Return(e, 0)
             ELSE Goto("FindTreeDirectory")
    /\ UNCHANGED <<args, opts, gopts, excludePatternFns, includePatternFns,
                   unlockDeferred, SelectFilter, totalErrors, wpc, wtmp, errorCalls,
                   errorsAtRestore, warnCalls, walkAborted, cancelled, cancelledAt,
                   progressFinished, check1Count, selVars>>

\* lines 126-129
FindTreeDirectory ==
    /\ pc = "FindTreeDirectory"
    /\ Enter("LocateSubtree")
    /\ \E ok \in CallOutcomes :
          /\ failedAt' = (IF ok THEN failedAt ELSE "LocateSubtree")
          /\ IF ResolutionErrReturned(ok)
             THEN \E e \in CallErr("ErrFindTree") : Return(e, 0)
             ELSE Goto("Setup")
    /\ UNCHANGED <<args, opts, gopts, excludePatternFns, includePatternFns,
                   unlockDeferred, SelectFilter, totalErrors, wpc, wtmp, errorCalls,
                   errorsAtRestore, warnCalls, walkAborted, cancelled, cancelledAt,
                   progressFinished, check1Count, selVars>>

\* ----------------------------------------------- runRestore, lines 131-188
\* lines 178-182
InstallFilter ==
    IF hasExcludes THEN "exclude"
    ELSE IF hasIncludes THEN "include"
    ELSE "nil"

\* lines 131-188: create the restorer, totalErrors := 0, install the
\* callbacks and the select filter, call res.RestoreTo
Setup ==
    /\ pc = "Setup"
    /\ totalErrors' = 0
    /\ SelectFilter' = InstallFilter
    /\ phases' = phases \o (IF InstallFilter # "nil" THEN <<"BuildSelector">> ELSE <<>>)
                        \o <<"Restore">>
    /\ Goto("Restoring")
    /\ UNCHANGED <<args, opts, gopts, excludePatternFns, includePatternFns,
                   unlockDeferred, wpc, wtmp, errorCalls, errorsAtRestore, warnCalls,
                   walkAborted, cancelled, cancelledAt, failedAt, progressFinished,
                   check1Count, selVars>>

\* ------------------------------------ the callbacks, lines 143-150
EnginePhase == pc \in {"Restoring", "Verifying"}

\* line 146: what res.Error returns to the engine
ErrorReturn == "nil"

\* line 145, the write half of totalErrors++
IncrementWrite(read) == read + 1

\* lines 143-145: res.Error is entered, prints, and reads totalErrors
ErrorBegin(w) ==
    /\ EnginePhase
    /\ wpc[w] = "idle"
    /\ errorCalls < MaxErrorCalls
    /\ errorCalls' = errorCalls + 1
    /\ wtmp' = [wtmp EXCEPT ![w] = totalErrors]
    /\ wpc' = [wpc EXCEPT ![w] = "inc"]
    /\ UNCHANGED <<args, opts, gopts, excludePatternFns, includePatternFns, lockHeld,
                   unlockDeferred, SelectFilter, totalErrors, errorsAtRestore, warnCalls,
                   walkAborted, cancelled, cancelledAt, failedAt, phases,
                   progressFinished, outcome, reported, check1Count, pc, selVars>>

\* lines 145-146: res.Error writes totalErrors and returns
ErrorEnd(w) ==
    /\ EnginePhase
    /\ wpc[w] = "inc"
    /\ totalErrors' = IncrementWrite(wtmp[w])
    /\ wtmp' = [wtmp EXCEPT ![w] = 0]
    /\ wpc' = [wpc EXCEPT ![w] = "idle"]
    /\ walkAborted' = (walkAborted \/ ErrorReturn # "nil")
    /\ UNCHANGED <<args, opts, gopts, excludePatternFns, includePatternFns, lockHeld,
                   unlockDeferred, SelectFilter, errorCalls, errorsAtRestore, warnCalls,
                   cancelled, cancelledAt, failedAt, phases, progressFinished, outcome,
                   reported, check1Count, pc, selVars>>

\* lines 148-150: totalErrors after res.Warn, which only prints
WarnCounter(n) == n

\* lines 148-150: res.Warn
Warn(w) ==
    /\ EnginePhase
    /\ wpc[w] = "idle"
    /\ warnCalls < MaxWarnCalls
    /\ warnCalls' = warnCalls + 1
    /\ totalErrors' = WarnCounter(totalErrors)
    /\ UNCHANGED <<args, opts, gopts, excludePatternFns, includePatternFns, lockHeld,
                   unlockDeferred, SelectFilter, wpc, wtmp, errorCalls, errorsAtRestore,
                   walkAborted, cancelled, cancelledAt, failedAt, phases,
                   progressFinished, outcome, reported, check1Count, pc, selVars>>

\* ----------------------------------------------- runRestore, lines 188-219
\* What an engine call (RestoreTo, VerifyFiles) may return once its workers
\* are done: an error when a callback asked to abort, otherwise nil or an
\* error of its own; after a cancellation it may also return the context
\* error, and it may as well have finished and return nil, or have handed
\* the failure to res.Error, which returns nil (line 146).
EngineResults(own) ==
    (IF walkAborted THEN {own} ELSE {"nil", own})
    \cup (IF cancelled THEN {"ErrCancelled"} ELSE {})

\* Variant: with per-item errors recorded the run goes on to the summary.
EngineErrReturnedUnlessCounted(err) == err # "nil" /\ totalErrors = 0

\* lines 189-191 and 206-208: `if err != nil { return err }`
EngineErrReturned(err) == err # "nil"

\* lines 188-191
RestoreToReturn ==
    /\ pc = "Restoring"
    /\ AllIdle
    /\ errorsAtRestore' = errorCalls
    /\ \E err \in EngineResults("ErrRestore") :
          /\ failedAt' = (IF err # "nil" THEN "Restore" ELSE failedAt)
          /\ IF EngineErrReturned(err) THEN Return(err, 0) ELSE Goto("CheckErrors1")
    /\ UNCHANGED <<args, opts, gopts, excludePatternFns, includePatternFns,
                   unlockDeferred, SelectFilter, totalErrors, wpc, wtmp, errorCalls,
                   warnCalls, walkAborted, cancelled, cancelledAt, phases,
                   progressFinished, check1Count, selVars>>

\* Variant: the check of line 195 is left out.
ErrorsAfterRestoreUnchecked == FALSE

\* line 195 and line 209: totalErrors > 0
ErrorsAfterRestore == totalErrors > 0
ErrorsAfterVerify == totalErrors > 0

\* lines 193-205: progress.Finish(), the first check of totalErrors, and,
\* with --verify, the call of res.VerifyFiles
CheckErrors1 ==
    /\ pc = "CheckErrors1"
    /\ progressFinished' = TRUE
    /\ check1Count' = totalErrors
    /\ IF ErrorsAfterRestore
       THEN /\ Enter("CheckErrors1")
            /\ Return("ErrTotalErrors", totalErrors)
       ELSE IF opts.Verify
       THEN /\ phases' = phases \o <<"CheckErrors1", "Verify">>
            /\ Goto("Verifying")
       ELSE /\ phases' = phases \o <<"CheckErrors1", "Report">>
            /\ Return("ok", 0)
    /\ UNCHANGED <<args, opts, gopts, excludePatternFns, includePatternFns,
                   unlockDeferred, SelectFilter, totalErrors, wpc, wtmp, errorCalls,
                   errorsAtRestore, warnCalls, walkAborted, cancelled, cancelledAt,
                   failedAt, selVars>>

\* lines 205-208
VerifyFilesReturn ==
    /\ pc = "Verifying"
    /\ AllIdle
    /\ \E err \in EngineResults("ErrVerify") :
          /\ failedAt' = (IF err # "nil" THEN "Verify" ELSE failedAt)
          /\ IF EngineErrReturned(err) THEN Return(err, 0) ELSE Goto("CheckErrors2")
    /\ UNCHANGED <<args, opts, gopts, excludePatternFns, includePatternFns,
                   unlockDeferred, SelectFilter, totalErrors, wpc, wtmp, errorCalls,
                   errorsAtRestore, warnCalls, walkAborted, cancelled, cancelledAt,
                   phases, progressFinished, check1Count, selVars>>

\* lines 209-219
CheckErrors2 ==
    /\ pc = "CheckErrors2"
    /\ IF ErrorsAfterVerify
       THEN /\ Enter("CheckErrors2")
            /\ Return("ErrTotalErrors", totalErrors)
       ELSE /\ phases' = phases \o <<"CheckErrors2", "Report">>
            /\ Return("ok", 0)
    /\ UNCHANGED <<args, opts, gopts, excludePatternFns, includePatternFns,
                   unlockDeferred, SelectFilter, totalErrors, wpc, wtmp, errorCalls,
                   errorsAtRestore, warnCalls, walkAborted, cancelled, cancelledAt,
                   failedAt, progressFinished, check1Count, selVars>>

\* cmd.Context() is cancelled from outside (line 40)
Cancel ==
    /\ pc # "done"
    /\ ~cancelled
    /\ cancelled' = TRUE
    /\ cancelledAt' = (IF EnginePhase THEN pc ELSE "elsewhere")
    /\ UNCHANGED <<args, opts, gopts, excludePatternFns, includePatternFns, lockHeld,
                   unlockDeferred, SelectFilter, totalErrors, wpc, wtmp, errorCalls,
                   errorsAtRestore, warnCalls, walkAborted, failedAt, phases,
                   progressFinished, outcome, reported, check1Count, pc, selVars>>

\* ------------------------------------------- the selectors, lines 152-176
\* A selector is applied to an item and a node.  The item enters only
\* through the pattern functions, so a call is given by `outs`, the value
\* each function of the list returns for the item (matched for a reject
\* function, <<selectedForRestore, childMayBeSelected>> for an include
\* function), and the node's Type.  `evaluated` counts the functions called.
NodeTypes == {"dir", "file", "symlink"}

IncludeOut == [selected : BOOLEAN, childMayMatch : BOOLEAN]

\* What the functions of the installed list may return for one item: one
\* value per function of the captured list.
SelOuts ==
    IF SelectFilter = "exclude" THEN [1..excludePatternFns -> BOOLEAN]
    ELSE [1..includePatternFns -> IncludeOut]

\* Variant: a path is rejected when any reject function matches.
selectExcludeFilterAny(outs, nodeType) ==
    IF Len(outs) = 0
    THEN [selectedForRestore |-> FALSE, childMayBeSelected |-> FALSE, evaluated |-> 0]
    ELSE LET matched == \E i \in 1..Len(outs) : outs[i]
             selectedForRestore == ~matched
         IN  [selectedForRestore |-> selectedForRestore,
              childMayBeSelected |-> selectedForRestore /\ nodeType = "dir",
              evaluated |-> Len(outs)]

\* Variant: without reject functions everything is selected.
selectExcludeFilterEmptySelectsAll(outs, nodeType) ==
    IF Len(outs) = 0
    THEN [selectedForRestore |-> TRUE, childMayBeSelected |-> nodeType = "dir",
          evaluated |-> 0]
    ELSE [selectedForRestore |-> ~outs[1],
          childMayBeSelected |-> ~outs[1] /\ nodeType = "dir",
          evaluated |-> 1]

\* lines 152-166: the body of the loop returns in its first iteration
selectExcludeFilter(outs, nodeType) ==
    IF Len(outs) = 0
    THEN [selectedForRestore |-> FALSE, childMayBeSelected |-> FALSE, evaluated |-> 0]
    ELSE LET matched == outs[1]
             selectedForRestore == ~matched
             childMayBeSelected == selectedForRestore /\ nodeType = "dir"
         IN  [selectedForRestore |-> selectedForRestore,
              childMayBeSelected |-> childMayBeSelected,
              evaluated |-> 1]

\* lines 169-171: every iteration overwrites both results
RECURSIVE IncludeLoop(_, _, _)
IncludeLoop(outs, i, acc) ==
    IF i > Len(outs) THEN acc
    ELSE IncludeLoop(outs, i + 1,
                     [selectedForRestore |-> outs[i].selected,
                      childMayBeSelected |-> outs[i].childMayMatch,
                      evaluated |-> acc.evaluated + 1])

\* Variant: a node is selected when any include function selects it.
selectIncludeFilterAny(outs, nodeType) ==
    [selectedForRestore |-> \E i \in 1..Len(outs) : outs[i].selected,
     childMayBeSelected |-> (\E i \in 1..Len(outs) : outs[i].childMayMatch)
                            /\ nodeType = "dir",
     evaluated |-> Len(outs)]

\* Variant: line 173 is left out.
selectIncludeFilterNoDirCheck(outs, nodeType) ==
    IncludeLoop(outs, 1, [selectedForRestore |-> FALSE,
                          childMayBeSelected |-> FALSE,
                          evaluated |-> 0])

\* lines 168-176
selectIncludeFilter(outs, nodeType) ==
    LET r == IncludeLoop(outs, 1, [selectedForRestore |-> FALSE,
                                   childMayBeSelected |-> FALSE,
                                   evaluated |-> 0])
    IN  [selectedForRestore |-> r.selectedForRestore,
         childMayBeSelected |-> r.childMayBeSelected /\ nodeType = "dir",
         evaluated |-> r.evaluated]

\* The engine calls res.SelectFilter on one node while RestoreTo or
\* VerifyFiles is in progress: the closure installed by lines 178-182, over
\* the list it captured.  selIn and selOut record the call.
SelectCall ==
    /\ EnginePhase
    /\ SelectFilter # "nil"
    /\ \E outs \in SelOuts, nodeType \in NodeTypes :
          LET r == IF SelectFilter = "exclude"
                   THEN selectExcludeFilter(outs, nodeType)
                   ELSE selectIncludeFilter(outs, nodeType)
          IN  /\ selIn' = [mode |-> SelectFilter, outs |-> outs, nodeType |-> nodeType]
              /\ selOut' = [called |-> TRUE,
                            selectedForRestore |-> r.selectedForRestore,
                            childMayBeSelected |-> r.childMayBeSelected,
                            evaluated |-> r.evaluated]
    /\ UNCHANGED orchVars

\* The steps of runRestore itself.
OrchStep ==
    \/ CollectExcludes
    \/ CollectIncludes
    \/ Validate
    \/ Open
    \/ FindLatest
    \/ LoadIndex
    \/ FindTreeDirectory
    \/ Setup
    \/ RestoreToReturn
    \/ CheckErrors1
    \/ VerifyFilesReturn
    \/ CheckErrors2

\* The steps of the engine's workers.
WorkerStep(w) ==
    \/ ErrorBegin(w)
    \/ ErrorEnd(w)
    \/ Warn(w)

Next ==
    \/ OrchStep
    \/ \E w \in Workers : WorkerStep(w)
    \/ Cancel

Spec == Init /\ [][Next]_vars

\* Every call runRestore makes returns, and every worker is scheduled.
FairSpec ==
    /\ Spec
    /\ WF_vars(OrchStep)
    /\ \A w \in Workers : WF_vars(WorkerStep(w))

\* The run with the selector calls of the engine: the steps of runRestore
\* and the calls of res.SelectFilter.  The closures read the captured list
\* and the node only and write nothing, so the callbacks of the workers and
\* the cancellation, which they neither read nor write, are left to Spec.
SelNext ==
    \/ OrchStep
    \/ SelectCall

SelSpec == Init /\ [][SelNext]_vars

\* ================================================================ claims
Entered(p) == \E i \in DOMAIN phases : phases[i] = p

Before(p, q) ==
    \E i, j \in DOMAIN phases : i < j /\ phases[i] = p /\ phases[j] = q

LockedSteps == {"FindLatest", "LoadIndex", "FindTreeDirectory", "Setup", "Restoring",
                "CheckErrors1", "Verifying", "CheckErrors2"}

\* C1: VerifyFiles is entered only with --verify, after RestoreTo has
\* returned and the count read at line 195 was zero; a nonzero count at line
\* 195 ends the run with the summary error and without Verify; RestoreTo and
\* VerifyFiles are never in progress together.
C1_VerifyOnlyAfterCleanRestore ==
    /\ Entered("Verify") =>
          /\ opts.Verify
          /\ check1Count = 0
          /\ Before("Restore", "CheckErrors1")
          /\ Before("CheckErrors1", "Verify")
    /\ check1Count > 0 =>
          /\ pc = "done"
          /\ outcome = "ErrTotalErrors"
          /\ ~Entered("Verify")
    /\ pc = "Restoring" => ~Entered("Verify")
    /\ pc = "Verifying" => (Entered("CheckErrors1") /\ progressFinished)

\* C1 witness: Verify is running after a restore whose workers were active.
C1_Witness ==
    /\ pc = "Verifying"
    /\ opts.Verify
    /\ check1Count = 0
    /\ warnCalls > 0

\* C2 (as claimed): once the workers of a phase have finished, totalErrors
\* equals the number of res.Error invocations made so far.
C2_NoLostIncrement ==
    ((EnginePhase \/ pc \in {"CheckErrors1", "CheckErrors2", "done"}) /\ AllIdle)
        => totalErrors = errorCalls

\* C3 (as claimed): the lock is not held in any terminal state and is held
\* throughout ResolveSnapshot, LoadIndex, LocateSubtree, Restore and Verify.
C3_LockHeldAndReleased ==
    /\ pc = "done" => ~lockHeld
    /\ pc \in LockedSteps => lockHeld

\* C3 (amended): the lock is not held in any terminal state, and from the
\* successful open to the return it is held exactly when --no-lock is not
\* given.
C3_LockReleasedOnEveryExit ==
    /\ pc = "done" => ~lockHeld
    /\ pc \in LockedSteps => (lockHeld <=> ~gopts.NoLock)
    /\ pc \in LockedSteps => unlockDeferred

\* C3 witness: a run that had acquired the lock ended by cancellation.
C3_Witness ==
    /\ pc = "done"
    /\ outcome = "ErrCancelled"
    /\ unlockDeferred
    /\ ~gopts.NoLock
    /\ Entered("Restore")
    /\ ~lockHeld

\* The invocation is one the validation is to reject: the number of snapshot
\* IDs is not one, the target is empty, or exclude and include patterns are
\* both given.
InvalidInvocation ==
    \/ args # 1
    \/ opts.TargetEmpty
    \/ (excludeOptionsGiven /\ includeOptionsGiven)

PreRepoErrors == {"ErrExcludePatterns", "ErrIncludePatterns", "ErrNoSnapshotID",
                  "ErrMoreThanOneSnapshotID", "ErrNoTarget", "ErrExcludeInclude"}

\* C4 (as claimed): when the number of snapshot IDs is not one, or the
\* target is empty, or exclude and include patterns are both present, the
\* run never reaches openWithReadLock, FindLatest, LoadIndex or RestoreTo,
\* never holds the lock, and ends with an error raised before line 105.
C4_ValidationBeforeRepository ==
    InvalidInvocation =>
        /\ pc \in {"CollectExcludes", "CollectIncludes", "Validate", "done"}
        /\ phases \in {<<>>, <<"Validate">>}
        /\ ~lockHeld /\ ~unlockDeferred
        /\ pc = "done" => outcome \in PreRepoErrors

\* C5 (as claimed): a Restore that completed with N > 0 reported errors ends
\* the run with "There were N errors".
C5_SummaryReportsExactlyN ==
    (Entered("CheckErrors1") /\ errorsAtRestore > 0) =>
        /\ pc = "done"
        /\ outcome = "ErrTotalErrors"
        /\ reported = errorsAtRestore
        /\ ~walkAborted

\* C6 (as claimed): after a clean Restore, a Verify that completed with
\* M > 0 reported errors ends the run with "There were M errors", and with
\* M = 0 the run succeeds.
C6_VerifyReportsExactlyM ==
    (pc = "done" /\ Entered("Verify") /\ Entered("CheckErrors2")) =>
        IF errorCalls - errorsAtRestore > 0
        THEN outcome = "ErrTotalErrors" /\ reported = errorCalls - errorsAtRestore
        ELSE outcome = "ok"

\* C7: the exclude selector applied to a non-empty list returns
\* selectedForRestore = NOT (first function's result) and childMayBeSelected
\* = selectedForRestore AND node is a directory, and calls one function.
C7_ExcludeFirstOnly ==
    (selOut.called /\ selIn.mode = "exclude" /\ Len(selIn.outs) >= 1) =>
        /\ selOut.selectedForRestore = ~selIn.outs[1]
        /\ selOut.childMayBeSelected =
              (selOut.selectedForRestore /\ selIn.nodeType = "dir")
        /\ selOut.evaluated = 1

\* C7 witness: P1 does not match, P2 matches, the node is selected.
C7_Witness ==
    /\ selOut.called
    /\ selIn.mode = "exclude"
    /\ selIn.outs = <<FALSE, TRUE>>
    /\ hasExcludes /\ SelectFilter = "exclude" /\ excludePatternFns = 2
    /\ selIn.nodeType = "dir"
    /\ selOut.selectedForRestore
    /\ selOut.childMayBeSelected

\* C8: the include selector applied to a non-empty list calls every
\* function and returns the last function's results, childMayBeSelected
\* ANDed with node is a directory.
C8_IncludeLastWins ==
    (selOut.called /\ selIn.mode = "include" /\ Len(selIn.outs) >= 1) =>
        LET last == selIn.outs[Len(selIn.outs)]
        IN  /\ selOut.selectedForRestore = last.selected
            /\ selOut.childMayBeSelected =
                  (last.childMayMatch /\ selIn.nodeType = "dir")
            /\ selOut.evaluated = Len(selIn.outs)

\* C8 witness: Q1 selects, Q2 does not, the node is not selected.
C8_Witness ==
    /\ selOut.called
    /\ selIn.mode = "include"
    /\ selIn.outs = << [selected |-> TRUE, childMayMatch |-> TRUE],
                       [selected |-> FALSE, childMayMatch |-> FALSE] >>
    /\ hasIncludes /\ SelectFilter = "include" /\ includePatternFns = 2
    /\ selIn.nodeType = "dir"
    /\ ~selOut.selectedForRestore
    /\ ~selOut.childMayBeSelected

\* C9: for a node that is not a directory both selectors return
\* childMayBeSelected = false, whatever the list and the functions' results.
C9_NonDirectoryNoDescent ==
    (selOut.called /\ selIn.nodeType # "dir") => ~selOut.childMayBeSelected

\* C9 witness: the last include function says a child may match, the node
\* is a file.
C9_Witness ==
    /\ selOut.called
    /\ selIn.mode = "include"
    /\ selIn.nodeType = "file"
    /\ Len(selIn.outs) = 2
    /\ includePatternFns = 2 /\ SelectFilter = "include"
    /\ selIn.outs[2].childMayMatch
    /\ selOut.selectedForRestore
    /\ ~selOut.childMayBeSelected

\* C10 (as claimed): with one snapshot ID, a target, an exclude option
\* (--exclude, --iexclude or an exclude-from-file variant) and an include
\* option (--include, --iinclude), the run fails with "exclude and include
\* patterns are mutually exclusive" before the repository is accessed, no
\* selector is installed and Restore is not started.
C10_ExcludeIncludeRejected ==
    (/\ args = 1
     /\ ~opts.TargetEmpty
     /\ excludeOptionsGiven
     /\ hasIncludes
     /\ Entered("Validate")) =>
        /\ pc = "done"
        /\ outcome = "ErrExcludeInclude"
        /\ phases = <<"Validate">>
        /\ SelectFilter = "nil"


\* C11 (as claimed): with no snapshot ID the run fails with "no snapshot ID
\* specified", whatever the target, and does not access the repository.
C11_NoSnapshotID ==
    (args = 0 /\ pc = "done") =>
        /\ outcome = "ErrNoSnapshotID"
        /\ ~Entered("Open")

\* C11 (amended): with no snapshot ID the run does not access the
\* repository, and fails with "no snapshot ID specified" unless collecting
\* the exclude or include patterns failed first, in which case it returns
\* that error.
C11_NoSnapshotIDAfterCollect ==
    args = 0 =>
        /\ ~Entered("Open") /\ ~lockHeld /\ ~unlockDeferred
        /\ pc \in {"CollectExcludes", "CollectIncludes", "Validate", "done"}
        /\ pc = "done" =>
              outcome = (IF opts.ExcludeErr THEN "ErrExcludePatterns"
                         ELSE IF opts.IncludeErr THEN "ErrIncludePatterns"
                         ELSE "ErrNoSnapshotID")

\* C11 witness: scenario A with an empty target.
C11_Witness ==
    /\ args = 0
    /\ opts.TargetEmpty
    /\ pc = "done"
    /\ outcome = "ErrNoSnapshotID"
    /\ phases = <<"Validate">>

\* C12 (as claimed): when ctx is cancelled while RestoreTo or VerifyFiles is in progress,
\* the run does not go on to a further step (no Verify after a cancelled
\* Restore) and returns the cancellation error, never "There were N
\* errors".
C12_CancellationIsDistinct ==
    cancelledAt \in {"Restoring", "Verifying"} =>
        /\ pc \in {cancelledAt, "done"}
        /\ pc = "done" => (outcome = "ErrCancelled" /\ reported = 0)
        /\ cancelledAt = "Restoring" =>
              (~Entered("CheckErrors1") /\ ~Entered("Verify") /\ ~progressFinished)
        /\ cancelledAt = "Verifying" => ~Entered("CheckErrors2")

\* C13 (as claimed): a successful run had exactly one snapshot ID, a
\* target, not both exclude and include patterns, a resolved snapshot, a
\* zero count after Restore and, with --verify, a zero count after Verify;
\* each of the failure conditions gives an error.
C13_SuccessImpliesAllChecks ==
    /\ (pc = "done" /\ outcome = "ok") =>
          /\ args = 1
          /\ ~opts.TargetEmpty
          /\ ~(excludeOptionsGiven /\ includeOptionsGiven)
          /\ failedAt = ""
          /\ Entered("ResolveSnapshot") /\ Entered("Restore")
          /\ check1Count = 0
          /\ opts.Verify => (Entered("CheckErrors2") /\ totalErrors = 0)
    /\ (pc = "done" /\ (InvalidInvocation \/ failedAt # "" \/ check1Count > 0
                        \/ (Entered("CheckErrors2") /\ totalErrors > 0)))
          => outcome \notin {"ok", "running"}

\* C14 (as claimed): every res.Error invocation returns nil and increases
\* totalErrors by exactly one; every res.Warn invocation leaves totalErrors
\* unchanged.
C14_ErrorAddsOneWarnAddsNone ==
    [][ /\ \A w \in Workers :
              ErrorEnd(w) => (totalErrors' = totalErrors + 1 /\ ~walkAborted')
        /\ \A w \in Workers :
              Warn(w) => totalErrors' = totalErrors ]_vars

\* C15 (as claimed): when Restore runs, the exclude selector is installed
\* if reject functions were collected, the include selector if include
\* functions were collected, and no selector if neither.
C15_SelectorIffPatterns ==
    Entered("Restore") =>
        /\ excludePatternFns > 0 => SelectFilter = "exclude"
        /\ includePatternFns > 0 => SelectFilter = "include"
        /\ (excludePatternFns = 0 /\ includePatternFns = 0) => SelectFilter = "nil"

\* The place of each step in the order of the run; Open is the
\* openWithReadLock call between Validate and ResolveSnapshot.
PhaseRank(p) ==
    CASE p = "Validate" -> 1
      [] p = "Open" -> 2
      [] p = "ResolveSnapshot" -> 3
      [] p = "LoadIndex" -> 4
      [] p = "LocateSubtree" -> 5
      [] p = "BuildSelector" -> 6
      [] p = "Restore" -> 7
      [] p = "CheckErrors1" -> 8
      [] p = "Verify" -> 9
      [] p = "CheckErrors2" -> 10
      [] p = "Report" -> 11

\* The steps every run passes that gets as far as a later step.
MandatoryPhases == {"Validate", "Open", "ResolveSnapshot", "LoadIndex", "LocateSubtree",
                    "Restore", "CheckErrors1"}

\* C16: the steps are entered in the order Validate, ResolveSnapshot,
\* LoadIndex, LocateSubtree, BuildSelector, Restore, CheckErrors1, Verify,
\* CheckErrors2, Report, none twice, none before the earlier ones succeeded,
\* and a failure of ResolveSnapshot, LoadIndex or LocateSubtree ends the run
\* at once with Restore never started.
C16_StrictlyOrderedSinglePass ==
    /\ \A i, j \in DOMAIN phases :
          i < j => PhaseRank(phases[i]) < PhaseRank(phases[j])
    /\ \A i \in DOMAIN phases : \A q \in MandatoryPhases :
          PhaseRank(q) < PhaseRank(phases[i]) => Entered(q)
    /\ Entered("CheckErrors2") => Entered("Verify")
    /\ (Entered("Report") /\ Entered("Verify")) => Entered("CheckErrors2")
    /\ failedAt \in {"Open", "ResolveSnapshot", "LoadIndex", "LocateSubtree"} =>
          /\ pc = "done"
          /\ outcome \notin {"ok", "running"}
          /\ phases[Len(phases)] = failedAt
          /\ ~Entered("Restore")
    /\ failedAt = "Restore" => (pc = "done" /\ phases[Len(phases)] = "Restore")
    /\ failedAt = "Verify" => (pc = "done" /\ phases[Len(phases)] = "Verify")

\* C16 witness: a run through every step.
C16_Witness ==
    /\ pc = "done"
    /\ outcome = "ok"
    /\ phases = <<"Validate", "Open", "ResolveSnapshot", "LoadIndex", "LocateSubtree",
                  "BuildSelector", "Restore", "CheckErrors1", "Verify", "CheckErrors2",
                  "Report">>

\* C17: with an empty list both selectors return selectedForRestore = false
\* and childMayBeSelected = false for every node, directory or not.
C17_EmptyListSelectsNothing ==
    (selOut.called /\ Len(selIn.outs) = 0) =>
        /\ ~selOut.selectedForRestore
        /\ ~selOut.childMayBeSelected
        /\ selOut.evaluated = 0

\* C17 witness: the exclude selector with no reject function on a directory.
C17_Witness ==
    /\ selOut.called
    /\ selIn.mode = "exclude"
    /\ selIn.outs = <<>>
    /\ hasExcludes /\ SelectFilter = "exclude" /\ excludePatternFns = 0
    /\ selIn.nodeType = "dir"
    /\ ~selOut.selectedForRestore

\* The first failure in the order: exclude collection, include collection,
\* no snapshot ID, more than one, empty target, exclude and include.
FirstPreRepoFailure ==
    IF opts.ExcludeErr THEN "ErrExcludePatterns"
    ELSE IF opts.IncludeErr THEN "ErrIncludePatterns"
    ELSE IF args = 0 THEN "ErrNoSnapshotID"
    ELSE IF args > 1 THEN "ErrMoreThanOneSnapshotID"
    ELSE IF opts.TargetEmpty THEN "ErrNoTarget"
    ELSE IF hasExcludes /\ hasIncludes THEN "ErrExcludeInclude"
    ELSE "nil"

\* C18: of the failures before repository access the run returns the first
\* in the order above, and the later checks are not evaluated: after a
\* collection error the validation is not entered.
C18_PreRepoErrorPrecedence ==
    /\ (pc = "done" /\ FirstPreRepoFailure # "nil") =>
          /\ outcome = FirstPreRepoFailure
          /\ ~Entered("Open")
          /\ outcome \in {"ErrExcludePatterns", "ErrIncludePatterns"} => phases = <<>>
    /\ (pc = "done" /\ outcome \in PreRepoErrors) => outcome = FirstPreRepoFailure
    /\ (opts.ExcludeErr /\ pc = "done") => includePatternFns = 0

\* C18 witness: every check fails at once and the exclude collection error
\* is returned.
C18_Witness ==
    /\ opts.ExcludeErr /\ opts.IncludeErr
    /\ args = 0
    /\ opts.TargetEmpty
    /\ hasExcludes /\ hasIncludes
    /\ pc = "done"
    /\ outcome = "ErrExcludePatterns"

\* C19: when RestoreTo or VerifyFiles returns an error the run returns that
\* error at once: no summary is produced whatever totalErrors is, and after
\* a failed RestoreTo neither progress.Finish nor Verify is executed.
C19_EngineErrorFirst ==
    /\ failedAt = "Restore" =>
          /\ pc = "done"
          /\ outcome \in {"ErrRestore", "ErrCancelled"}
          /\ reported = 0
          /\ check1Count = -1
          /\ ~progressFinished
          /\ ~Entered("CheckErrors1") /\ ~Entered("Verify")
    /\ failedAt = "Verify" =>
          /\ pc = "done"
          /\ outcome \in {"ErrVerify", "ErrCancelled"}
          /\ reported = 0
          /\ ~Entered("CheckErrors2")

\* C19 witness: RestoreTo fails after per-item errors were recorded.
C19_Witness ==
    /\ failedAt = "Restore"
    /\ outcome = "ErrRestore"
    /\ totalErrors > 0
    /\ opts.Verify
    /\ pc = "done"

\* C20: under FairSpec every run reaches a terminal state, in which the
\* lock is not held.
C20_Terminates == <>(pc = "done" /\ outcome # "running" /\ ~lockHeld)

\* C20 witness: a run that took the lock has ended with it released.
C20_Witness ==
    /\ pc = "done"
    /\ outcome = "ok"
    /\ unlockDeferred
    /\ ~gopts.NoLock
    /\ ~lockHeld
    /\ errorCalls = 0

====
